---- MODULE Spec2Model ----
(***************************************************************************)
(* bitcoin-trader-ml: the three scripts download_data.py, process_data.py  *)
(* and train_model.py, run one after the other over the files data/raw and *)
(* data/processed.                                                         *)
(*                                                                         *)
(* Prices are fixed-point integers.  A threshold entry * (1 + 0.02) is     *)
(* kept scaled by 100, entry * (100 + 2), and a price is compared with it  *)
(* as price * 100, so every comparison of the labeling loop is exact.      *)
(* The indicator library (pandas_ta) is outside the repository: a column   *)
(* it appends is NaN on its warm-up rows and on the rows the library left  *)
(* undefined, and holds an opaque number, different on every row, on the   *)
(* others.  Warm-ups are 0..MaxWarm rows, not the indicators' periods, so  *)
(* that short series keep rows through the drop step.                      *)
(*                                                                         *)
(* FORWARD_WINDOW is 24 in the source.  The loops are modelled for a       *)
(* window w: enumerated series over Prices run with w in 1..MaxWindow,     *)
(* generated series (falling, flat or rising by 1% a bar) with w = 24.     *)
(***************************************************************************)
EXTENDS Integers, Sequences, FiniteSets, TLC

VARIABLES
    market,         \* the close prices the data provider returns (yf.download)
    window,         \* the forward window the labeling loop runs with
    ta,             \* what the indicator library leaves undefined
    rawFile,        \* data/raw/BTC-USD.csv, a sequence of lines
    processedFile,  \* data/processed/BTC-USD_processed.csv
    pc,             \* position of the running script
    df,             \* the DataFrame of the running script
    i, j,           \* loop counters of the labeling loops
    entry_price, profit_price, loss_price,
    reads,          \* positions of df['Close'].iloc[...] read for the current bar
    err,            \* exception that ended a script, "none" otherwise
    feature_cols    \* train_model's feature column list

vars == <<market, window, ta, rawFile, processedFile, pc, df, i, j,
          entry_price, profit_price, loss_price, reads, err, feature_cols>>

---------------------------------------------------------------------------
(* Bounds of the model *)
MaxLen == 4      \* enumerated price series have 0..MaxLen bars
MaxWindow == 3   \* and are labeled with windows 1..MaxWindow
MaxExtra == 2    \* generated series have up to FORWARD_WINDOW + 1 + MaxExtra bars
MaxWarm == 1     \* longest indicator warm-up

(* Configuration of process_data.py; the two fractions are in hundredths *)
FORWARD_WINDOW == 24
PROFIT_TARGET == 2
STOP_LOSS == 1

TICKER == "BTC-USD"

NaN == -1

Range(s) == {s[k] : k \in 1..Len(s)}

RECURSIVE Flatten(_)
Flatten(ss) == IF ss = <<>> THEN <<>> ELSE Head(ss) \o Flatten(Tail(ss))

---------------------------------------------------------------------------
(* DataFrames: an index, an ordered column list, one series per column *)

Frame(index, cols, data) == [index |-> index, cols |-> cols, data |-> data]

EmptyFrame == Frame(<<>>, <<>>, [c \in {} |-> <<>>])

NRows(f) == Len(f.index)

\* df[c] = vals: a new column is appended, an existing one is overwritten
SetCol(f, c, vals) ==
    Frame(f.index,
          IF c \in Range(f.cols) THEN f.cols ELSE Append(f.cols, c),
          [k \in (DOMAIN f.data) \cup {c} |-> IF k = c THEN vals ELSE f.data[k]])

\* DataFrame.to_csv: a header line, then one line per row
ToCsv(f, indexName) ==
    <<<<indexName>> \o f.cols>>
    \o [r \in 1..NRows(f) |->
          <<f.index[r]>> \o [k \in 1..Len(f.cols) |-> f.data[f.cols[k]][r]]]

\* the file yfinance's frame is written to: its columns have two levels, so
\* a second header line naming the ticker follows the first
ToCsvTicker(f) ==
    LET plain == ToCsv(f, "Price")
    IN  <<plain[1], <<"Ticker">> \o [k \in 1..Len(f.cols) |-> TICKER]>>
        \o SubSeq(plain, 2, Len(plain))

\* pd.read_csv(header=0, index_col=0, skiprows=skip)
ReadCsv(lines, skip) ==
    LET keep == SelectSeq([k \in 1..Len(lines) |-> k], LAMBDA k : (k - 1) \notin skip)
        cols == Tail(lines[keep[1]])
        body == [r \in 1..(Len(keep) - 1) |-> lines[keep[r + 1]]]
    IN  Frame([r \in 1..Len(body) |-> body[r][1]],
              cols,
              [c \in Range(cols) |->
                 LET k == CHOOSE k \in 1..Len(cols) : cols[k] = c
                 IN  [r \in 1..Len(body) |-> body[r][k + 1]]])

\* a slip: df.fillna(0) in place of df.dropna()
DropNaFill(f) ==
    Frame(f.index, f.cols,
          [c \in DOMAIN f.data |->
             [r \in 1..NRows(f) |-> IF f.data[c][r] = NaN THEN 0 ELSE f.data[c][r]]])

\* df.dropna(): the rows with no NaN in any column, in order
DropNa(f) ==
    LET keep == SelectSeq([r \in 1..NRows(f) |-> r],
                          LAMBDA r : \A c \in DOMAIN f.data : f.data[c][r] # NaN)
    IN  Frame([k \in 1..Len(keep) |-> f.index[keep[k]]],
              f.cols,
              [c \in DOMAIN f.data |-> [k \in 1..Len(keep) |-> f.data[c][keep[k]]]])

\* a slip: shift(-lag), which reads the rows after t
ShiftAhead(series, lag) ==
    [t \in 1..Len(series) |-> IF t + lag <= Len(series) THEN series[t + lag] ELSE NaN]

\* Series.shift(lag)
Shift(series, lag) ==
    [t \in 1..Len(series) |-> IF t - lag >= 1 THEN series[t - lag] ELSE NaN]

\* pat in s, for two strings
Contains(pat, s) ==
    \E k \in 1..(Len(s) - Len(pat) + 1) : SubSeq(s, k, k + Len(pat) - 1) = pat

NoFile == <<>>

---------------------------------------------------------------------------
(* The data provider and the indicator library *)

\* the price columns of the downloaded frame
RawCols == <<"Close", "High", "Low", "Open", "Volume">>

\* the frame yf.download returns for a series of close prices: one bar per
\* hour, the index is the hour
Bars(closes) ==
    Frame([t \in 1..Len(closes) |-> t - 1],
          RawCols,
          [c \in Range(RawCols) |-> IF c = "Volume" THEN [t \in 1..Len(closes) |-> 1]
                                    ELSE closes])

\* the columns each df.ta call appends, in the order of the calls
TaCalls ==
    << <<"SMA_20">>, <<"SMA_100">>, <<"RSI_14">>,
       <<"MACD_12_26_9", "MACDh_12_26_9", "MACDs_12_26_9">>,
       <<"BBL_20_2.0", "BBM_20_2.0", "BBU_20_2.0", "BBB_20_2.0", "BBP_20_2.0">>,
       <<"ATRr_14">>,
       <<"ADX_14", "DMP_14", "DMN_14">>,
       <<"OBV">> >>

IndicatorCols == Flatten(TaCalls)

ColNo(c) == CHOOSE k \in 1..Len(IndicatorCols) : IndicatorCols[k] = c

\* one indicator column over n rows: NaN while warming up (OBV is cumulative
\* and has no warm-up) and on the row the library left undefined
TaSeries(c, n, beh) ==
    [t \in 1..n |->
        IF (c # "OBV" /\ t <= beh.warm) \/ (beh.holeCol = c /\ beh.holeRow = t)
        THEN NaN
        ELSE 100 * ColNo(c) + t]

RECURSIVE AppendIndicators(_, _, _)
AppendIndicators(f, cols, beh) ==
    IF cols = <<>> THEN f
    ELSE AppendIndicators(SetCol(f, Head(cols), TaSeries(Head(cols), NRows(f), beh)),
                          Tail(cols), beh)

indicators_to_lag == <<"RSI_14", "MACDh_12_26_9", "BBP_20_2.0", "OBV">>
lag_periods == <<1, 3, 6, 12>>

\* f'{indicator}_lag_{lag}'
LagName(indicator, lag) == indicator \o "_lag_" \o ToString(lag)

\* the (indicator, lag) pairs in the order the two nested loops visit them
LagPairs ==
    [p \in 1..(Len(indicators_to_lag) * Len(lag_periods)) |->
        <<indicators_to_lag[((p - 1) \div Len(lag_periods)) + 1],
          lag_periods[((p - 1) % Len(lag_periods)) + 1]>>]

RECURSIVE AppendLags(_, _)
AppendLags(f, pairs) ==
    IF pairs = <<>> THEN f
    ELSE LET ind == Head(pairs)[1]
             lag == Head(pairs)[2]
         IN  AppendLags(SetCol(f, LagName(ind, lag), Shift(f.data[ind], lag)),
                        Tail(pairs))

---------------------------------------------------------------------------
(* The labeling loop's arithmetic, scaled by 100 *)

\* a slip: range(len(df))
LabelRangeAll(n, w) == 0..(n - 1)

\* range(len(df) - FORWARD_WINDOW)
LabelRange(n, w) == 0..(n - w - 1)

\* a slip: the first bar's close as every bar's entry price
EntryPriceFirst(closes, k) == closes[1]

\* df['Close'].iloc[i], the entry price of bar i
EntryPrice(closes, k) == closes[k + 1]

\* entry_price * (1 + PROFIT_TARGET)
ProfitPrice(entry) == entry * (100 + PROFIT_TARGET)

\* a slip: the stop placed above the entry price
LossPriceAbove(entry) == entry * (100 + STOP_LOSS)

\* entry_price * (1 - STOP_LOSS)
LossPrice(entry) == entry * (100 - STOP_LOSS)

\* future_price >= profit_price
HitsProfit(future, profit) == future * 100 >= profit

\* a slip: the stop-loss test never ends the scan
HitsLossNever(future, loss) == FALSE

\* future_price <= loss_price
HitsLoss(future, loss) == future * 100 <= loss

\* df['Close'].iloc[k] is inside the frame
InFrame(f, k) == 0 <= k /\ k < NRows(f)

\* df['Close'].iloc[k]
Iloc(f, c, k) == f.data[c][k + 1]

\* df.at[df.index[k], c] = v
SetAt(f, c, k, v) == SetCol(f, c, [f.data[c] EXCEPT ![k + 1] = v])

\* the label the two loops leave on bar k of a close series: the inner loop
\* from offset jj on
RECURSIVE ScanFrom(_, _, _, _)
ScanFrom(closes, k, jj, w) ==
    IF jj > w THEN 0
    ELSE IF HitsProfit(closes[k + jj + 1], ProfitPrice(EntryPrice(closes, k))) THEN 1
    ELSE IF HitsLoss(closes[k + jj + 1], LossPrice(EntryPrice(closes, k))) THEN 0
    ELSE ScanFrom(closes, k, jj + 1, w)

LabelOf(closes, k, w) == ScanFrom(closes, k, 1, w)

---------------------------------------------------------------------------
(* What the environment can hand the scripts *)

Prices == {0, 99, 100, 102}

ShortSeries == UNION {[1..n -> Prices] : n \in 0..MaxLen}

\* each close is the previous one times rate / 100, in fixed point
RECURSIVE GeoPrice(_, _, _)
GeoPrice(base, rate, k) ==
    IF k = 1 THEN base ELSE (GeoPrice(base, rate, k - 1) * rate) \div 100

Rates == {99, 100, 101}
Bases == {1000000}
LongLens == (FORWARD_WINDOW - 1)..(FORWARD_WINDOW + 1 + MaxExtra)

LongSeries ==
    {[k \in 1..n |-> GeoPrice(b, r, k)] : b \in Bases, r \in Rates, n \in LongLens}

\* what the provider may return when the labeling runs with window w
Feed(w) == IF w = FORWARD_WINDOW THEN LongSeries ELSE ShortSeries

NoHole == [warm |-> 0, holeCol |-> "none", holeRow |-> 0]
HoleRows == {3, 14}

TaChoices(w) ==
    IF w = FORWARD_WINDOW
    THEN {[warm |-> m, holeCol |-> "none", holeRow |-> 0] : m \in 0..MaxWarm}
         \cup {[warm |-> m, holeCol |-> c, holeRow |-> r] :
                 m \in 0..MaxWarm, c \in Range(indicators_to_lag), r \in HoleRows}
    ELSE {NoHole}

\* a raw file that holds the two header lines and no bar
HeaderOnly == ToCsvTicker(Bars(<<>>))

---------------------------------------------------------------------------
\* Nothing has run.  The raw file is whatever is at its path: none, or a
\* file with no bar; download_btc_data replaces it when the provider
\* returns bars.
Init ==
    /\ window \in (1..MaxWindow) \cup {FORWARD_WINDOW}
    /\ ta \in TaChoices(window)
    /\ market = <<>>
    /\ rawFile \in {NoFile, HeaderOnly}
    /\ processedFile = NoFile
    /\ pc = "download"
    /\ df = EmptyFrame
    /\ i = 0 /\ j = 0
    /\ entry_price = 0 /\ profit_price = 0 /\ loss_price = 0
    /\ reads = <<>>
    /\ err = "none"
    /\ feature_cols = <<>>

locals == <<i, j, entry_price, profit_price, loss_price, reads>>

(* download_data.py *)

\* yf.download returns bars: the frame is written to the raw file
DownloadSave ==
    /\ pc = "download"
    /\ \E m \in Feed(window) :
         /\ m # <<>>
         /\ market' = m
         /\ rawFile' = ToCsvTicker(Bars(m))
    /\ pc' = "process"
    /\ UNCHANGED <<window, ta, processedFile, df, locals, err, feature_cols>>

\* yf.download returns an empty frame, or raises: nothing is written
DownloadNoData ==
    /\ pc = "download"
    /\ pc' = "process"
    /\ UNCHANGED <<market, window, ta, rawFile, processedFile, df, locals, err,
                   feature_cols>>

(* process_data.py *)

\* the raw file does not exist: print and return
ProcessMissing ==
    /\ pc = "process"
    /\ rawFile = NoFile
    /\ pc' = "train"
    /\ UNCHANGED <<market, window, ta, rawFile, processedFile, df, locals, err,
                   feature_cols>>

ProcessLoad ==
    /\ pc = "process"
    /\ rawFile # NoFile
    /\ df' = ReadCsv(rawFile, {1})
    /\ pc' = "indicators"
    /\ UNCHANGED <<market, window, ta, rawFile, processedFile, locals, err,
                   feature_cols>>

Indicators ==
    /\ pc = "indicators"
    /\ df' = AppendIndicators(df, IndicatorCols, ta)
    /\ pc' = "lags"
    /\ UNCHANGED <<market, window, ta, rawFile, processedFile, locals, err,
                   feature_cols>>

Lags ==
    /\ pc = "lags"
    /\ df' = AppendLags(df, LagPairs)
    /\ pc' = "target"
    /\ UNCHANGED <<market, window, ta, rawFile, processedFile, locals, err,
                   feature_cols>>

\* df['target'] = 0, and the outer loop starts
InitTarget ==
    /\ pc = "target"
    /\ df' = SetCol(df, "target", [t \in 1..NRows(df) |-> 0])
    /\ i' = 0
    /\ pc' = "bar"
    /\ UNCHANGED <<market, window, ta, rawFile, processedFile, j, entry_price,
                   profit_price, loss_price, reads, err, feature_cols>>

\* the head of the outer loop: the next bar's entry price and its two
\* barriers, or the end of the loop
BarHead ==
    /\ pc = "bar"
    /\ IF i \in LabelRange(NRows(df), window)
       THEN /\ entry_price' = EntryPrice(df.data["Close"], i)
            /\ profit_price' = ProfitPrice(EntryPrice(df.data["Close"], i))
            /\ loss_price' = LossPrice(EntryPrice(df.data["Close"], i))
            /\ reads' = <<i>>
            /\ j' = 1
            /\ pc' = "scan"
       ELSE /\ pc' = "clean"
            /\ UNCHANGED <<j, entry_price, profit_price, loss_price, reads>>
    /\ UNCHANGED <<market, window, ta, rawFile, processedFile, df, i, err,
                   feature_cols>>

\* one pass of the inner loop, j in range(1, FORWARD_WINDOW + 1)
ScanStep ==
    /\ pc = "scan"
    /\ reads' = Append(reads, i + j)
    /\ IF ~InFrame(df, i + j)
       THEN /\ err' = "IndexError"
            /\ pc' = "crashed"
            /\ UNCHANGED <<df, i, j>>
       ELSE LET future_price == Iloc(df, "Close", i + j)
            IN  IF HitsProfit(future_price, profit_price)
                THEN /\ df' = SetAt(df, "target", i, 1)
                     /\ i' = i + 1
                     /\ pc' = "bar"
                     /\ UNCHANGED <<j, err>>
                ELSE IF HitsLoss(future_price, loss_price) \/ j = window
                THEN /\ i' = i + 1
                     /\ pc' = "bar"
                     /\ UNCHANGED <<df, j, err>>
                ELSE /\ j' = j + 1
                     /\ UNCHANGED <<df, i, pc, err>>
    /\ UNCHANGED <<market, window, ta, rawFile, processedFile, entry_price,
                   profit_price, loss_price, feature_cols>>

Clean ==
    /\ pc = "clean"
    /\ df' = DropNa(df)
    /\ pc' = "save"
    /\ UNCHANGED <<market, window, ta, rawFile, processedFile, locals, err,
                   feature_cols>>

Save ==
    /\ pc = "save"
    /\ processedFile' = ToCsv(df, "Date")
    /\ pc' = "train"
    /\ UNCHANGED <<market, window, ta, rawFile, df, locals, err, feature_cols>>

(* train_model.py, up to the feature matrix *)

\* pd.read_csv raises when the processed file does not exist
TrainMissing ==
    /\ pc = "train"
    /\ processedFile = NoFile
    /\ err' = "FileNotFoundError"
    /\ pc' = "crashed"
    /\ UNCHANGED <<market, window, ta, rawFile, processedFile, df, locals,
                   feature_cols>>

\* read_csv(index_col='Date'), then the sanitizing dropna (the frame holds
\* no infinite value for replace to turn into NaN)
TrainLoad ==
    /\ pc = "train"
    /\ processedFile # NoFile
    /\ df' = DropNa(ReadCsv(processedFile, {}))
    /\ pc' = "features"
    /\ UNCHANGED <<market, window, ta, rawFile, processedFile, locals, err,
                   feature_cols>>

\* [col for col in df.columns if pat in col]
ColsWith(pat, cols) == SelectSeq(cols, LAMBDA c : Contains(pat, c))

FeatureCols(cols) ==
    <<"SMA_20", "SMA_100", "RSI_14", "ATRr_14", "OBV">>
    \o ColsWith("ADX", cols) \o ColsWith("BB", cols)
    \o ColsWith("MACD", cols) \o ColsWith("lag", cols)

SelectFeatures ==
    /\ pc = "features"
    /\ feature_cols' = FeatureCols(df.cols)
    /\ pc' = "done"
    /\ UNCHANGED <<market, window, ta, rawFile, processedFile, df, locals, err>>

---------------------------------------------------------------------------
Next ==
    \/ DownloadSave
    \/ DownloadNoData
    \/ ProcessMissing
    \/ ProcessLoad
    \/ Indicators
    \/ Lags
    \/ InitTarget
    \/ BarHead
    \/ ScanStep
    \/ Clean
    \/ Save
    \/ TrainMissing
    \/ TrainLoad
    \/ SelectFeatures

Spec == Init /\ [][Next]_vars

---------------------------------------------------------------------------
(* Properties *)

\* the frame still holds one row per bar, and the labeling loop runs or is over
Labeling == pc \in {"bar", "scan", "clean"}

\* the close series of the frame, positions 0..n-1
CloseAt(k) == df.data["Close"][k + 1]
TargetAt(k) == df.data["target"][k + 1]

\* bars whose forward window ends inside the series
Eligible == {k \in 0..(NRows(df) - 1) : k + window <= NRows(df) - 1}

\* the outer loop is done with bar k
Labeled(k) == pc = "clean" \/ (pc = "bar" /\ k < i)

ProfitTouch(k, o) == CloseAt(k + o) * 100 >= CloseAt(k) * (100 + PROFIT_TARGET)
LossTouch(k, o) == CloseAt(k + o) * 100 <= CloseAt(k) * (100 - STOP_LOSS)

\* C1: first barrier touched wins. An eligible bar with a positive entry
\* price is labeled 1 exactly when some offset of its window touches the
\* profit barrier with no earlier offset touching the stop-loss barrier, and
\* 0 in every other case.
C1_FirstBarrierWins ==
    Labeling =>
        \A k \in Eligible :
            (Labeled(k) /\ CloseAt(k) > 0) =>
                /\ TargetAt(k) \in {0, 1}
                /\ TargetAt(k) = 1 <=>
                     \E o \in 1..window :
                        /\ ProfitTouch(k, o)
                        /\ \A e \in 1..(o - 1) : ~LossTouch(k, e)

\* a bar whose stop-loss is touched before a later profit touch, labeled 0
C1_Witness ==
    /\ pc = "clean"
    /\ \E k \in Eligible :
          /\ CloseAt(k) > 0
          /\ TargetAt(k) = 0
          /\ \E e \in 1..window, o \in 1..window :
                e < o /\ LossTouch(k, e) /\ ProfitTouch(k, o)

\* C2: a bar whose forward window runs past the end of the series is absent
\* from the processed file.
C2_IneligibleAbsent ==
    processedFile # NoFile =>
        \A r \in 2..Len(processedFile) :
            processedFile[r][1] + window < Len(rawFile) - 2

\* C3: the labeling never goes on with a bar whose entry price is not
\* positive: it fails with InvalidPrice.
C3_InvalidPrice ==
    (pc = "scan" /\ CloseAt(i) <= 0) => err = "InvalidPrice"

\* C9: the scan reads inside the series only, at consecutive positions from
\* the entry bar on, and nothing after the first position that touches a
\* barrier.
C9_ReadsInBounds ==
    /\ err # "IndexError"
    /\ Labeling =>
         /\ Len(reads) <= window + 1
         /\ \A r \in 1..Len(reads) :
               /\ 0 <= reads[r] /\ reads[r] <= NRows(df) - 1
               /\ reads[r] = reads[1] + (r - 1)
         /\ \A r \in 2..(Len(reads) - 1) :
               /\ ~ProfitTouch(reads[1], r - 1)
               /\ ~LossTouch(reads[1], r - 1)

\* a bar whose scan went through its whole window, up to the last bar
C9_Witness ==
    /\ pc = "bar"
    /\ window >= 2
    /\ Len(reads) = window + 1
    /\ reads[Len(reads)] = NRows(df) - 1

\* the close series s with the positions outside keep (0-based) replaced by
\* every choice of prices
Variants(s, keep) ==
    LET free == {k \in 0..(Len(s) - 1) : k \notin keep}
    IN  {[t \in 1..Len(s) |-> IF (t - 1) \in free THEN p[t - 1] ELSE s[t]] :
            p \in [free -> Prices]}

Positive(s) == \A t \in 1..Len(s) : s[t] > 0

\* C4: the label of bar k depends only on close[k+1 .. k+W]: a series that
\* agrees with this one there gives bar k the same label (stated for series
\* of positive prices, the domain's own assumption).
C4_DependsOnFutureOnly ==
    (pc = "clean" /\ Positive(df.data["Close"])) =>
        \A k \in Eligible :
            \A s \in Variants(df.data["Close"], (k + 1)..(k + window)) :
                Positive(s) => LabelOf(s, k, window) = TargetAt(k)

\* C4 as amended: the label of bar k depends only on close[k .. k+W], the
\* entry price included: a series that agrees with this one there gives
\* bar k the same label.
C4_DependsOnEntryAndFuture ==
    pc = "clean" =>
        \A k \in Eligible :
            \A s \in Variants(df.data["Close"], k..(k + window)) :
                LabelOf(s, k, window) = TargetAt(k)

\* a labeled bar that has bars before it, and a series that differs from this
\* one on them
C4_Witness ==
    /\ pc = "clean"
    /\ \E k \in Eligible :
          /\ k >= 1
          /\ TargetAt(k) = 1
          /\ Positive(df.data["Close"])
          /\ \E s \in Variants(df.data["Close"], k..(k + window)) :
                Positive(s) /\ s[k] # df.data["Close"][k]

RowHasNaN(f, r) == \E c \in Range(f.cols) : f.data[c][r] = NaN

C6_LagLooksBack ==
    pc \in {"target", "bar", "scan", "clean"} =>
        \A ind \in {"RSI_14", "MACDh_12_26_9", "BBP_20_2.0", "OBV"} :
            \A lag \in {1, 3, 6, 12} :
                \A t \in 0..(NRows(df) - 1) :
                    Iloc(df, LagName(ind, lag), t) =
                        IF t - lag < 0 THEN NaN ELSE Iloc(df, ind, t - lag)

\* a lag-12 column with a defined value, and with the undefined value of its
\* indicator's row 13 at row 25
C6_Witness ==
    /\ pc = "target"
    /\ NRows(df) >= 26
    /\ Iloc(df, "RSI_14", 13) = NaN
    /\ Iloc(df, "RSI_14_lag_12", 25) = NaN
    /\ Iloc(df, "RSI_14_lag_12", 24) # NaN
    /\ Iloc(df, "RSI_14_lag_12", 24) = Iloc(df, "RSI_14", 12)

\* the raw file is missing or holds no bar
NoSource == rawFile = NoFile \/ Len(rawFile) <= 2

\* C7: with the source series absent or empty, process_btc_data runs no
\* indicator, lag or label step and writes no processed file.
C7_AbortsOnMissingInput ==
    NoSource =>
        /\ pc \notin {"lags", "target", "bar", "scan", "clean", "save"}
        /\ processedFile = NoFile

\* each close is the previous close times 1.01
Rising(closes) ==
    /\ Len(closes) >= 1
    /\ closes[1] > 0
    /\ \A t \in 1..(Len(closes) - 1) : closes[t + 1] = (closes[t] * 101) \div 100

\* C8: on a series that rises by 1% a bar, with a 2% profit target, a 1%
\* stop loss and a window of 24, every eligible bar is labeled 1.
C8_RisingSeriesAllOnes ==
    (/\ pc = "clean"
     /\ window = 24 /\ PROFIT_TARGET = 2 /\ STOP_LOSS = 1
     /\ Rising(df.data["Close"])) =>
        \A k \in Eligible : TargetAt(k) = 1

\* a rising series with at least two eligible bars, labeled
C8_Witness ==
    /\ pc = "clean"
    /\ window = 24
    /\ Rising(df.data["Close"])
    /\ Cardinality(Eligible) >= 2
    /\ \A k \in Eligible : TargetAt(k) = 1

\* C10: the feature column list names each column at most once and never
\* names the target column.
C10_FeaturesDistinct ==
    pc = "done" =>
        /\ \A a, b \in 1..Len(feature_cols) :
              feature_cols[a] = feature_cols[b] => a = b
        /\ "target" \notin Range(feature_cols)

====
